---------------------------- MODULE Spec2Model ----------------------------
(***************************************************************************)
(* Model of create_new_line_utf8strs (client/gui-sdl3/utf8string.c): the   *)
(* splitter of a NUL-terminated text into lines, which stores the lines in *)
(* a function-static array of 512 pointers and returns that array.         *)
(*                                                                         *)
(* An invocation is a process p with the function's locals (start, pstr,   *)
(* len, count) and a program counter; the static array buf is shared by    *)
(* all invocations.  Positions in the text are 0-based offsets from the    *)
(* pointer the caller passed.  One iteration of the while loop is two      *)
(* steps: Scan (lines 37-53) and EndTest (lines 55-64).                    *)
(***************************************************************************)
EXTENDS Integers, Sequences, FiniteSets, TLC

(* ------------------------------ bounds -------------------------------- *)

\* longest text the caller passes in the sequential specification
MaxLen == 3

\* number of calls the caller makes, one after the other
MaxCalls == 2

\* longest text passed by each of the two overlapping invocations
ReentLen == 3

\* longest text s of the pair of calls on s and on s followed by a newline
PairLen == 4

\* in the capacity specification the texts hold BufSize - 1 .. BufSize + MaxOver
\* newline characters
MaxOver == 0

(* --------------------------- program constants ------------------------ *)

\* the array as it would be with one more slot (a change of the declaration)
BufSizeGrown == 512 + 1

\* static char *buf[512]
BufSize == 512

\* '\n', '\0' and the other bytes a text is made of
NL == "\n"

NUL == "NUL"

Chars == {"a", " ", NL}

\* the null pointer; a line is a sequence of bytes of Chars, so no line equals it
NULL == <<"NULL">>

Procs == {1, 2}

VARIABLES
  buf,     \* the static array: slot -> line, for the slots that are not NULL
  beyond,  \* memory after the array's last slot: the <<slot, value>> stored there
  live,    \* strings allocated with fc_calloc and not freed
  text,    \* text[p]: the bytes before the terminator of the text p was called on
  start,   \* start[p], pstr[p]: the locals start and pstr, as offsets into text[p]
  pstr,
  len,     \* len[p], count[p]: the locals len and count
  count,
  pc,      \* pc[p]: "idle", "head" (line 37), "tail" (line 55), "done", "crashed"
  result,  \* result[p]: what the invocation returned: "none" so far, or "buf"
  seen,    \* seen[p]: the contents of the array when the invocation returned
  iter,    \* iter[p]: iterations of the loop completed by the invocation
  wlog,    \* wlog[p]: the stores <<slot, value>> of the invocation, in order
  ncalls   \* invocations started so far

vars ==
  <<buf, beyond, live, text, start, pstr, len, count, pc, result, seen, iter, wlog, ncalls>>

(* ------------------------------ memory -------------------------------- *)

\* buf[i]: a slot never stored to holds NULL (static storage is zeroed)
BufAt(b, i) == IF i \in DOMAIN b THEN b[i] ELSE NULL

\* *(t + i): the byte at offset i; past the terminator the byte is whatever
\* the memory there holds
Deref(t, i) ==
  IF i < Len(t) THEN {t[i + 1]}
  ELSE IF i = Len(t) THEN {NUL}
  ELSE Chars \cup {NUL}

\* buf[i] = v, on the array: a store with i >= BufSize does not land in it
StoreBuf(b, i, v) ==
  IF i < BufSize
  THEN LET d == IF v = NULL THEN DOMAIN b \ {i} ELSE DOMAIN b \cup {i}
       IN  [j \in d |-> IF j = i THEN v ELSE b[j]]
  ELSE b

\* buf[i] = v, on the memory after the array: where a store with i >= BufSize lands
StoreBeyond(y, i, v) ==
  IF i < BufSize
  THEN y
  ELSE {e \in y : e[1] # i} \cup {<<i, v>>}

\* what a step that stored to the slots of ws can do next: a store past the
\* array is undefined, the step goes on or the process dies
Outcomes(ws) ==
  IF \A k \in 1..Len(ws) : ws[k][1] < BufSize THEN {"ok"} ELSE {"ok", "fault"}

RECURSIVE StoreAllBuf(_, _)
StoreAllBuf(b, ws) ==
  IF ws = <<>> THEN b
  ELSE StoreAllBuf(StoreBuf(b, ws[1][1], ws[1][2]), Tail(ws))

RECURSIVE StoreAllBeyond(_, _)
StoreAllBeyond(y, ws) ==
  IF ws = <<>> THEN y
  ELSE StoreAllBeyond(StoreBeyond(y, ws[1][1], ws[1][2]), Tail(ws))


(* --------------------- create_new_line_utf8strs ----------------------- *)

\* fc_calloc(len + 1, 1); memcpy(buf[count], start, len): the string stored
Copy(t, s, l) == SubSeq(t, s + 1, s + l)

\* fc_calloc(2, 1); buf[count][0] = ' '
SpaceLine == <<" ">>

\* the line stored when *pstr is a newline, were an empty run copied as it is
CopyAtNewline(t, s, l) == Copy(t, s, l)

\* the line stored when *pstr is a newline
LineAtNewline(t, s, l) == IF l # 0 THEN Copy(t, s, l) ELSE SpaceLine

\* start = pstr, were the newline not skipped
StartAtNewline(q) == q

\* start = pstr + 1, after a newline
StartAfterNewline(q) == q + 1

\* the test of the trailing run, were it never stored, or always
TailNeverLine(l) == FALSE

TailAlwaysLine(l) == TRUE

\* if (len != 0), when *pstr is the terminator
TailHasLine(l) == l # 0

\* the slot of the null marker, were it always one past count
SentinelPastCount(c, l) == c + 1

\* the slot of the null marker, after the trailing run was or was not stored
SentinelSlot(c, l) == IF TailHasLine(l) THEN c + 1 ELSE c

\* the stores of lines 39-45, to slot c
ScanStores(t, s, l, c) == <<<<c, LineAtNewline(t, s, l)>>>>

\* the stores of lines 56-62
TailStores(t, s, l, c) ==
  (IF TailHasLine(l) THEN <<<<c, Copy(t, s, l)>>>> ELSE <<>>)
    \o <<<<SentinelSlot(c, l), NULL>>>>

\* the strings the stores of ws allocated: one fc_calloc for each string stored,
\* and no free
Allocated(ws) == Cardinality({k \in 1..Len(ws) : ws[k][2] # NULL})

\* the caller calls the function on the text s: lines 31-35
Call(p, s) ==
  /\ pc[p] \in {"idle", "done"}
  /\ text' = [text EXCEPT ![p] = s]
  /\ start' = [start EXCEPT ![p] = 0]
  /\ pstr' = [pstr EXCEPT ![p] = 0]
  /\ len' = [len EXCEPT ![p] = 0]
  /\ count' = [count EXCEPT ![p] = 0]
  /\ pc' = [pc EXCEPT ![p] = "head"]
  /\ result' = [result EXCEPT ![p] = "none"]
  /\ seen' = [seen EXCEPT ![p] = <<>>]
  /\ iter' = [iter EXCEPT ![p] = 0]
  /\ wlog' = [wlog EXCEPT ![p] = <<>>]
  /\ ncalls' = ncalls + 1
  /\ UNCHANGED <<buf, beyond, live>>

\* the loop test holds and the iteration runs up to pstr++: lines 37-53
Scan(p) ==
  /\ pc[p] = "head"
  /\ \E h \in Deref(text[p], start[p]), c \in Deref(text[p], pstr[p]) :
       /\ h # NUL
       /\ LET ws == IF c = NL
                    THEN ScanStores(text[p], start[p], len[p], count[p])
                    ELSE <<>>
          IN  \E o \in Outcomes(ws) :
                IF o = "fault"
                THEN /\ pc' = [pc EXCEPT ![p] = "crashed"]
                     /\ UNCHANGED <<buf, beyond, live, start, pstr, len, count, wlog>>
                ELSE /\ buf' = StoreAllBuf(buf, ws)
                     /\ beyond' = StoreAllBeyond(beyond, ws)
                     /\ live' = live + Allocated(ws)
                     /\ wlog' = [wlog EXCEPT ![p] = @ \o ws]
                     /\ start' = [start EXCEPT ![p] =
                                    IF c = NL THEN StartAfterNewline(pstr[p]) ELSE @]
                     /\ len' = [len EXCEPT ![p] = IF c = NL THEN 0 ELSE @ + 1]
                     /\ count' = [count EXCEPT ![p] = IF c = NL THEN @ + 1 ELSE @]
                     /\ pstr' = [pstr EXCEPT ![p] = @ + 1]
                     /\ pc' = [pc EXCEPT ![p] = "tail"]
  /\ UNCHANGED <<text, result, seen, iter, ncalls>>

\* the rest of the iteration, the test for the terminator: lines 55-64
EndTest(p) ==
  /\ pc[p] = "tail"
  /\ \E c \in Deref(text[p], pstr[p]) :
       LET ws == IF c = NUL
                 THEN TailStores(text[p], start[p], len[p], count[p])
                 ELSE <<>>
       IN  \E o \in Outcomes(ws) :
             IF o = "fault"
             THEN /\ pc' = [pc EXCEPT ![p] = "crashed"]
                  /\ UNCHANGED <<buf, beyond, live, start, count, wlog, iter>>
             ELSE /\ buf' = StoreAllBuf(buf, ws)
                  /\ beyond' = StoreAllBeyond(beyond, ws)
                  /\ live' = live + Allocated(ws)
                  /\ wlog' = [wlog EXCEPT ![p] = @ \o ws]
                  /\ count' = [count EXCEPT ![p] =
                                 IF c = NUL /\ TailHasLine(len[p]) THEN @ + 1 ELSE @]
                  /\ start' = [start EXCEPT ![p] = IF c = NUL THEN pstr[p] ELSE @]
                  /\ iter' = [iter EXCEPT ![p] = @ + 1]
                  /\ pc' = [pc EXCEPT ![p] = "head"]
  /\ UNCHANGED <<text, pstr, len, result, seen, ncalls>>

\* the loop test fails, return buf: lines 37, 67
Return(p) ==
  /\ pc[p] = "head"
  /\ NUL \in Deref(text[p], start[p])
  /\ pc' = [pc EXCEPT ![p] = "done"]
  /\ result' = [result EXCEPT ![p] = "buf"]
  /\ seen' = [seen EXCEPT ![p] = buf]
  /\ UNCHANGED <<buf, beyond, live, text, start, pstr, len, count, iter, wlog, ncalls>>

(* --------------------------- specifications --------------------------- *)

\* the texts of at most n bytes
Inputs(n) == UNION {[1..k -> Chars] : k \in 0..n}

\* j newlines
Newlines(j) == [i \in 1..j |-> NL]

\* texts that fill the array to its last slots and past them
CapInputs ==
  {Newlines(j) \o t : j \in (BufSize - 1)..(BufSize + MaxOver), t \in {<<>>, <<"a">>}}

\* the program starts: the static array is zeroed, no invocation is active
Init ==
  /\ buf = <<>>
  /\ beyond = {}
  /\ live = 0
  /\ text = [p \in Procs |-> <<>>]
  /\ start = [p \in Procs |-> 0]
  /\ pstr = [p \in Procs |-> 0]
  /\ len = [p \in Procs |-> 0]
  /\ count = [p \in Procs |-> 0]
  /\ pc = [p \in Procs |-> "idle"]
  /\ result = [p \in Procs |-> "none"]
  /\ seen = [p \in Procs |-> <<>>]
  /\ iter = [p \in Procs |-> 0]
  /\ wlog = [p \in Procs |-> <<>>]
  /\ ncalls = 0

\* one caller, calls one after the other
CallSeq(s) == ncalls < MaxCalls /\ Call(1, s)

Next ==
  \/ \E s \in Inputs(MaxLen) : CallSeq(s)
  \/ Scan(1)
  \/ EndTest(1)
  \/ Return(1)

Spec == Init /\ [][Next]_vars

\* one caller, one call on a text long enough to fill the array
CallCap(s) == ncalls = 0 /\ Call(1, s)

NextCap ==
  \/ \E s \in CapInputs : CallCap(s)
  \/ Scan(1)
  \/ EndTest(1)
  \/ Return(1)

SpecCap == Init /\ [][NextCap]_vars

\* two invocations, one call each, their steps interleaved
CallReent(p, s) == pc[p] = "idle" /\ Call(p, s)

NextReent ==
  \E p \in Procs :
    \/ \E s \in Inputs(ReentLen) : CallReent(p, s)
    \/ Scan(p)
    \/ EndTest(p)
    \/ Return(p)

SpecReent == Init /\ [][NextReent]_vars

\* one caller, two calls: on a text s, then on s followed by one newline
CallFirst(s) == pc[1] = "idle" /\ Call(1, s)

CallSecond == pc[1] = "done" /\ pc[2] = "idle" /\ Call(2, text[1] \o <<NL>>)

NextPair ==
  \/ \E s \in Inputs(PairLen) : CallFirst(s)
  \/ CallSecond
  \/ \E p \in Procs : Scan(p) \/ EndTest(p) \/ Return(p)

SpecPair == Init /\ [][NextPair]_vars


(* ------------------- what the claims are stated with ------------------ *)

\* the runs of s between its newlines: one more than s has newlines
RECURSIVE Segments(_)
Segments(s) ==
  IF s = <<>> THEN << <<>> >>
  ELSE LET r == Segments(Tail(s))
       IN  IF Head(s) = NL
           THEN << <<>> >> \o r
           ELSE << <<Head(s)>> \o r[1] >> \o Tail(r)

\* the lines the text s stands for: every run that a newline ends, " " for an
\* empty one, and the run after the last newline unless it is empty
LinesOf(s) ==
  LET g == Segments(s)
      m == Len(g)
  IN  [i \in 1..(m - 1) |-> IF g[i] = <<>> THEN <<" ">> ELSE g[i]]
        \o (IF g[m] = <<>> THEN <<>> ELSE <<g[m]>>)

CountNL(s) == Cardinality({i \in 1..Len(s) : s[i] = NL})

NoTrailingNL(s) == s = <<>> \/ s[Len(s)] # NL

\* how many lines the text s stands for: one for each newline, and one for a
\* run after the last newline that is not empty
LineCount(s) == CountNL(s) + (IF s # <<>> /\ s[Len(s)] # NL THEN 1 ELSE 0)

\* the entries before the terminator, as a caller reads the array b
EntryCount(b) ==
  CHOOSE n \in 0..Cardinality(DOMAIN b) :
    n \notin DOMAIN b /\ \A i \in 0..(n - 1) : i \in DOMAIN b

Entries(b) == [i \in 1..EntryCount(b) |-> b[i - 1]]

\* the lines joined with newlines, a single-space line taken for an empty one
Unspace(l) == IF l = <<" ">> THEN <<>> ELSE l

RECURSIVE JoinLines(_)
JoinLines(ls) ==
  IF ls = <<>> THEN <<>>
  ELSE IF Len(ls) = 1 THEN Unspace(ls[1])
  ELSE Unspace(ls[1]) \o <<NL>> \o JoinLines(Tail(ls))

\* the slots an invocation stored to, and its stores of the null marker
SlotsStored(w) == {w[k][1] : k \in 1..Len(w)}

SentinelStores(w) == {k \in 1..Len(w) : w[k][2] = NULL}

\* the slots in which the arrays b and c differ
Changed(b, c) == {i \in DOMAIN b \cup DOMAIN c : BufAt(b, i) # BufAt(c, i)}

(* -------------------------------- C1 ---------------------------------- *)

\* C1: when a call on a non-empty text returns, slots 0..n-1 of the array hold,
\* in order, the lines of the text (the runs between newlines, " " for an empty
\* run that a newline ends, nothing for an empty run after the last newline),
\* and slot n holds the null marker.
C1_LinesInOrder ==
  (pc[1] = "done" /\ text[1] # <<>>) =>
    LET ls == LinesOf(text[1])
    IN  /\ \A i \in 1..Len(ls) : BufAt(buf, i - 1) = ls[i]
        /\ BufAt(buf, Len(ls)) = NULL
        /\ Len(ls) = LineCount(text[1])
        /\ \A i \in 1..Len(ls) : \A k \in 1..Len(ls[i]) : ls[i][k] # NL

C1_Witness ==
  /\ pc[1] = "done"
  /\ ncalls = 2
  /\ text[1] = <<NL, "a", NL>>
  /\ BufAt(buf, 0) = <<" ">>
  /\ BufAt(buf, 1) = <<"a">>
  /\ BufAt(buf, 2) = NULL

(* -------------------------------- C2 ---------------------------------- *)

\* C2 as claimed: a text with k newlines and no trailing newline, the empty
\* text included, yields k + 1 entries before the terminator.
C2_EntriesAnyInput ==
  (pc[1] = "done" /\ NoTrailingNL(text[1])) =>
    EntryCount(buf) = CountNL(text[1]) + 1

\* C2 amended: a non-empty text with k newlines and no trailing newline yields
\* k + 1 entries before the terminator.
C2_EntriesNonEmpty ==
  (pc[1] = "done" /\ text[1] # <<>> /\ NoTrailingNL(text[1])) =>
    EntryCount(buf) = CountNL(text[1]) + 1

C2_Witness ==
  /\ pc[1] = "done"
  /\ text[1] = <<NL, NL, "a">>
  /\ EntryCount(buf) = 3

(* -------------------------------- C3 ---------------------------------- *)

\* C3: after a call on the empty text, slot 0 of the array is the null marker,
\* whatever earlier calls left in the array.
C3_EmptyYieldsNoLines ==
  (pc[1] = "done" /\ text[1] = <<>>) => BufAt(buf, 0) = NULL

(* -------------------------------- C4 ---------------------------------- *)

\* C4: no string stored by a call has length zero: an empty run that a newline
\* ends is stored as " ", and the run after the last newline is stored only
\* when it is not empty (the call stores as many strings as the text has lines).
C4_NoZeroLengthEntry ==
  /\ \A k \in 1..Len(wlog[1]) : wlog[1][k][2] # <<>>
  /\ \A i \in DOMAIN buf : buf[i] # <<>>
  /\ (pc[1] = "done" /\ text[1] # <<>>) =>
       LET g == Segments(text[1])
       IN  /\ \A i \in 1..(Len(g) - 1) :
                g[i] = <<>> => BufAt(buf, i - 1) = <<" ">>
           /\ Len(wlog[1]) - Cardinality(SentinelStores(wlog[1]))
                = CountNL(text[1]) + (IF g[Len(g)] = <<>> THEN 0 ELSE 1)

C4_Witness ==
  /\ pc[1] = "done"
  /\ text[1] = <<NL, NL>>
  /\ wlog[1] = << <<0, <<" ">> >>, <<1, <<" ">> >>, <<2, NULL>> >>

(* -------------------------------- C5 ---------------------------------- *)

\* C5 as claimed: for a text without a trailing newline, the entries joined
\* with newlines, each single-space entry taken for the empty string, are the
\* text.
C5_RoundTripAnyInput ==
  (pc[1] = "done" /\ NoTrailingNL(text[1])) =>
    JoinLines(Entries(buf)) = text[1]

\* C5 amended: the same, for a non-empty text none of whose runs between
\* newlines is a single space.
C5_RoundTripNoSpaceLine ==
  ( /\ pc[1] = "done"
    /\ text[1] # <<>>
    /\ NoTrailingNL(text[1])
    /\ \A i \in 1..Len(Segments(text[1])) : Segments(text[1])[i] # <<" ">> ) =>
    JoinLines(Entries(buf)) = text[1]

C5_Witness ==
  /\ pc[1] = "done"
  /\ text[1] = <<NL, "a", " ">>
  /\ Entries(buf) = << <<" ">>, <<"a", " ">> >>
  /\ JoinLines(Entries(buf)) = text[1]

(* -------------------------------- C6 ---------------------------------- *)

\* the capacity the claim names
SlotsClaimed == 512

\* C6: there is no bounds check: a call on a non-empty text of n lines that
\* returns has stored to the slots 0..n; its stores stay inside the array
\* exactly when n <= 511; with n >= 512 a store landed at a slot >= 512, past
\* the array, and the call returned the array all the same, reporting nothing.
C6_NoBoundsCheck ==
  (pc[1] = "done" /\ text[1] # <<>>) =>
    LET n == LineCount(text[1])
    IN  /\ SlotsStored(wlog[1]) = 0..n
        /\ (beyond = {}) <=> (n <= SlotsClaimed - 1)
        /\ \A i \in DOMAIN buf : i < SlotsClaimed
        /\ n >= SlotsClaimed =>
             /\ \E e \in beyond : e[1] >= SlotsClaimed
             /\ \A i \in SlotsClaimed..n : \E e \in beyond : e[1] = i
        /\ result[1] = "buf"

C6_Witness ==
  /\ pc[1] = "done"
  /\ result[1] = "buf"
  /\ LineCount(text[1]) = SlotsClaimed
  /\ <<SlotsClaimed, NULL>> \in beyond

(* -------------------------------- C7 ---------------------------------- *)

OtherProc(p) == CHOOSE q \in Procs : q # p

\* the line the text s puts in slot i, the null marker after the last line
OwnSlot(s, i) == IF i < Len(LinesOf(s)) THEN LinesOf(s)[i + 1] ELSE NULL

\* C7: two interleaved invocations store to the one array, each through its
\* own counter: in the array an invocation on a non-empty text sees when it
\* returns, each of the slots 0..n of its text holds either the value its own
\* text puts there or a value the other invocation stored to that slot.
C7_SlotsFromEitherInvocation ==
  \A p \in Procs :
    (pc[p] = "done" /\ text[p] # <<>>) =>
      /\ result[p] = "buf"
      /\ \A i \in 0..Len(LinesOf(text[p])) :
           \/ BufAt(seen[p], i) = OwnSlot(text[p], i)
           \/ \E k \in 1..Len(wlog[OtherProc(p)]) :
                wlog[OtherProc(p)][k] = <<i, BufAt(seen[p], i)>>

\* an invocation has returned an array that is not the lines of its own text
C7_Corrupted ==
  /\ pc[1] = "done"
  /\ text[1] # <<>>
  /\ text[2] # text[1]
  /\ Entries(seen[1]) # LinesOf(text[1])
  /\ \E i \in 0..Len(LinesOf(text[1])) :
       /\ BufAt(seen[1], i) # OwnSlot(text[1], i)
       /\ \E k \in 1..Len(wlog[2]) : wlog[2][k] = <<i, BufAt(seen[1], i)>>

(* -------------------------------- C8 ---------------------------------- *)

\* the slot of the last store of an invocation
SentinelAt(w) == w[Len(w)][1]

\* C8: for a non-empty text s that does not end with a newline, the call on s
\* followed by one newline returns the same entries, and stores the null
\* marker at the same slot, as the call on s.
C8_TrailingNewlineAddsNothing ==
  ( /\ pc[1] = "done"
    /\ pc[2] = "done"
    /\ text[1] # <<>>
    /\ NoTrailingNL(text[1])
    /\ text[2] = text[1] \o <<NL>> ) =>
    /\ Entries(seen[2]) = Entries(seen[1])
    /\ SentinelStores(wlog[1]) = {Len(wlog[1])}
    /\ SentinelStores(wlog[2]) = {Len(wlog[2])}
    /\ SentinelAt(wlog[2]) = SentinelAt(wlog[1])

C8_Witness ==
  /\ pc[1] = "done"
  /\ pc[2] = "done"
  /\ text[1] = <<"a", NL, " ">>
  /\ text[2] = <<"a", NL, " ", NL>>
  /\ Entries(seen[2]) = << <<"a">>, <<" ">> >>
  /\ SentinelAt(wlog[2]) = 2

(* -------------------------------- C9 ---------------------------------- *)

\* the slots a call on the text s may change
SlotsOfCall(s) == IF s = <<>> THEN {} ELSE 0..Len(LinesOf(s))

\* C9: every step of a call changes only slots 0..n of the array, n the number
\* of lines of the call's text, and no slot for the empty text: the slots above
\* n keep what earlier calls left; the call returns the array; no string is
\* freed: the strings allocated only grow, by the strings the step stored.
C9_FrameOfCall ==
  [][ /\ Changed(buf, buf') \subseteq SlotsOfCall(text'[1])
      /\ beyond' = beyond
      /\ pc'[1] = "done" => (result'[1] = "buf" /\ seen'[1] = buf)
      /\ live' >= live
      /\ live' - live >= Cardinality({i \in Changed(buf, buf') : BufAt(buf', i) # NULL})
    ]_vars

\* after a call with fewer lines, a line of the earlier call is still in the
\* array, after the new null marker
C9_StaleBeyondSentinel ==
  /\ pc[1] = "done"
  /\ ncalls = 2
  /\ text[1] = <<"a">>
  /\ BufAt(buf, 0) = <<"a">>
  /\ BufAt(buf, 1) = NULL
  /\ BufAt(buf, 2) = <<"a">>
  /\ live = 4

(* -------------------------------- C10 --------------------------------- *)

\* the loop of a call on a text of L >= 1 bytes: L iterations; when an iteration
\* starts, start <= pstr, pstr - start = len and pstr is before the terminator;
\* no byte past the terminator is read; the null marker is stored once, in the
\* last iteration
LoopOfNonEmptyText ==
  LET L == Len(text[1])
  IN  L > 0 =>
        /\ pc[1] = "done" => iter[1] = L /\ Cardinality(SentinelStores(wlog[1])) = 1
        /\ (pc[1] = "head" /\ NUL \notin Deref(text[1], start[1])) =>
             (start[1] <= pstr[1] /\ pstr[1] - start[1] = len[1] /\ pstr[1] < L)
        /\ pc[1] \in {"head", "tail"} => (start[1] <= L /\ pstr[1] <= L)
        /\ SentinelStores(wlog[1]) # {} => iter[1] = L

\* C10: for every text of length L the loop ends after exactly L iterations;
\* when an iteration starts, start <= pstr, pstr - start = len and pstr is
\* before the terminator; no byte past the terminator is read; and the null
\* marker is stored exactly once, in the last iteration.
C10_LoopAndSentinel ==
  LET L == Len(text[1])
  IN  /\ pc[1] = "done" => iter[1] = L /\ Cardinality(SentinelStores(wlog[1])) = 1
      /\ (pc[1] = "head" /\ NUL \notin Deref(text[1], start[1])) =>
           (start[1] <= pstr[1] /\ pstr[1] - start[1] = len[1] /\ pstr[1] < L)
      /\ pc[1] \in {"head", "tail"} => (start[1] <= L /\ pstr[1] <= L)
      /\ SentinelStores(wlog[1]) # {} => iter[1] = L

=============================================================================
